---- MODULE Spec2Model ----
(***************************************************************************)
(* Model of the uptime monitor's scheduler and per-service state machine   *)
(* (index.ts), its incident ledger (status-page.ts) and its history store  *)
(* (store.ts).  Every runCheck invocation is a coroutine: an entry of      *)
(* `cyc`, whose `pc` is the await it is suspended at.  Time is Date.now()  *)
(* in whole seconds: every duration of the code is a number of seconds     *)
(* times 1000, and the model's clock moves by whole seconds, so the factor *)
(* 1000 is divided out of both sides of every comparison (90 days in ms    *)
(* does not fit the checker's integers).                                   *)
(***************************************************************************)
EXTENDS Integers, Sequences, FiniteSets, TLC

VARIABLES
    now,          \* Date.now(), in seconds
    advances,     \* how often the clock has been advanced
    config,       \* config.ts `config`: the active configuration
    reloads,      \* how many configuration reloads have been delivered
    timers,       \* state.timers: name -> timer handle
    activeTimers, \* the interval timers of the runtime that are not cleared
    timerSeq,     \* the next timer handle
    cyc,          \* the runCheck invocations in flight, in the order they were started
    started,      \* how many runCheck invocations were started
    urlStates,    \* state.urlStates: name -> UrlState
    lastAlert,    \* state.lastAlert: key -> time
    incidents,    \* statusData.incidents
    statusData,   \* statusData.services
    checks,       \* store.ts data.checks: name -> StoredCheck[]
    retentionDays,\* store.ts retentionDays
    env,          \* the run's scheduling regime and its bounds
    halted,       \* the process was ended (unhandled rejection, uncaught exception)
    overlapped,   \* history: names for which two cycles were ever in flight at once
    log,          \* history: name -> what its cycles did, in order
    lastCycle,    \* history: the cycle whose checkWithRetry returned last
    answer,       \* what the last query of the store returned
    req           \* makeRequest: the probe whose requests are followed one by one

vars == <<now, advances, config, reloads, timers, activeTimers, timerSeq, cyc,
          started, urlStates, lastAlert, incidents, statusData, checks,
          retentionDays, env, halted, overlapped, log, lastCycle, answer,
          req>>

-----------------------------------------------------------------------------
(* Bounds of the model *)

FlapCycles == 4
FlapAdvance == 2
FlapReloads == 0
RetryCycles == 2
RetryAdvance == 2
OvCycles == 2
OvAdvance == 1
PairCycles == 3
PairAdvance == 1
ListCycles == 4
ListReloads == 2
StoreCycles == 4
StoreAdvance == 2
FlakyCycles == 3
EmptyCycles == 2
IncidentCycles == 3
IncidentAdvance == 2
ProbeCycles == 3
RetentionCycles == 3
RetentionAdvance == 2
ZeroCycles == 3
ZeroAdvance == 1
QueryCycles == 3
QueryAdvance == 2
MaxInFlight == 2
MaxReloads == 1
StartTime == 100000000

(* Program constants *)

SSL_WARNING_DAYS == 14
DefaultMaxRedirects == 5
DefaultRetryCount == 3
DefaultRetryDelay == 10
DefaultCooldown == 300
IncidentRetentionDays == 90
DefaultRetentionDays == 5

Day == 24 * 60 * 60
Hour == 60 * 60
SslCooldown == 24 * 60 * 60

\* The clock moves by one retry delay or by one day.
Jumps == {10, Day}

-----------------------------------------------------------------------------
(* Values *)

\* An optional value is <<>> (undefined / null) or <<v>>.
None == <<>>
Some(v) == <<v>>

\* JavaScript `opt || d` for a number: undefined and 0 are falsy.
OrDefault(opt, d) == IF opt # None /\ opt[1] # 0 THEN opt[1] ELSE d

\* Date.prototype.toISOString and new Date(iso).getTime(): exact to the unit of the clock.
ToISOString(ms) == <<"iso", ms>>
GetTime(iso) == iso[2]

\* Map.get(k) || 0
GetOrZero(m, k) == IF k \in DOMAIN m THEN m[k] ELSE 0

\* Map.set(k, v) / obj[k] = v
MapSet(m, k, v) == [x \in DOMAIN m \cup {k} |-> IF x = k THEN v ELSE m[x]]

RECURSIVE SelectSeqBy(_, _)
\* Array.prototype.filter, with the kept indices given as a set
SelectSeqBy(s, keep) ==
    IF s = <<>> THEN <<>>
    ELSE LET n == Len(s)
             front == SelectSeqBy(SubSeq(s, 1, n - 1), keep)
         IN IF n \in keep THEN Append(front, s[n]) ELSE front

UrlLists == {<<[name |-> "A"]>>}
AlertsChoices ==
    [retry_count : {None, Some(1), Some(2)},
     retry_delay : {None},
     alert_on_recovery : {None, Some(FALSE)},
     cooldown_period : {None, Some(10)}]
StorageChoices == [retention_days : {None}]
StatusPageChoices == [incident_retention_days : {None}]
Configs ==
    [urls : UrlLists, alerts : AlertsChoices, storage : StorageChoices,
     status_page : StatusPageChoices]

\* What a reload can deliver: the file unchanged, or one alerts option edited
Edits(cfg) ==
    {c \in Configs :
        /\ c.urls = cfg.urls /\ c.storage = cfg.storage
        /\ c.status_page = cfg.status_page
        /\ c.alerts.retry_count = cfg.alerts.retry_count
        /\ c.alerts.retry_delay = cfg.alerts.retry_delay
        /\ \/ c.alerts.alert_on_recovery = cfg.alerts.alert_on_recovery
           \/ c.alerts.cooldown_period = cfg.alerts.cooldown_period}

\* The configurations a run of regime e can start with
InitConfigs(e) ==
    [urls : e.urlLists,
     alerts : [retry_count : e.retryCounts,
               retry_delay : e.retryDelays,
               alert_on_recovery : e.recovery,
               cooldown_period : e.cooldowns],
     storage : [retention_days : e.retentions],
     status_page : [incident_retention_days : e.incidentRetentions]]

\* How one probe attempt can end
Faults ==
    {"malformed", "connection", "timeout", "redirects", "noLocation",
     "status", "content", "slow", "badLocation"}

\* What one probe attempt can meet: no fault or one of Faults, and the certificate
\* days-remaining of the response when there is one.
Outcomes ==
    {[fault |-> "none", days |-> d] : d \in {None, Some(14), Some(15)}}
       \cup {[fault |-> "connection", days |-> None], [fault |-> "status", days |-> Some(14)]}

\* Every fault once, without certificate info
FaultOutcomes == {[fault |-> f, days |-> None] : f \in Faults \cup {"none"}}

\* Array.prototype.splice(c, 1)
Remove(s, c) == SubSeq(s, 1, c - 1) \o SubSeq(s, c + 1, Len(s))

-----------------------------------------------------------------------------
(* checker.ts *)

\* makeRequest rejects its promise: new URL throws in the executor (line 85), the
\* request emits 'error' (150) or 'timeout' (154), or the redirect handling rejects
\* (126, 131)
Rejects(fault) == fault \in {"malformed", "connection", "timeout", "redirects", "noLocation"}

\* makeRequest line 134: new URL(location, urlString) throws inside the 'end'
\* handler of the response, outside the executor and outside every try: the promise
\* never settles and the exception is uncaught
Uncaught(fault) == fault = "badLocation"

RedirectCodes == {301, 302, 303, 307, 308}

\* checkUrl lines 44-45: the options makeRequest is called with
FollowRedirects(settings) == settings.follow_redirects # Some(FALSE)
MaxRedirects(settings) == OrDefault(settings.max_redirects, DefaultMaxRedirects)

\* makeRequest(urlString, options, 0) with a parseable URL: the first request is sent
MakeRequest(settings) ==
    [settings |-> settings,
     followRedirects |-> FollowRedirects(settings),
     maxRedirects |-> MaxRedirects(settings),
     redirectCount |-> 0,
     requests |-> 1,
     state |-> "pending",
     statusCode |-> 0,
     error |-> ""]

\* makeRequest lines 123-147, the 'end' handler of a response: a redirect is
\* refused (126, 131), throws on an unparseable Location (134) or is followed by
\* makeRequest(redirectUrl, options, redirectCount + 1), whose outcome settles the
\* promise; any other response resolves it
OnEnd(rq, statusCode, location) ==
    IF statusCode \in RedirectCodes /\ rq.followRedirects
    THEN IF rq.redirectCount >= rq.maxRedirects
         THEN [rq EXCEPT !.state = "rejected", !.statusCode = statusCode,
                         !.error = "Too many redirects"]
         ELSE IF location = "absent"
              THEN [rq EXCEPT !.state = "rejected", !.statusCode = statusCode,
                              !.error = "Redirect without location header"]
              ELSE IF location = "unparseable"
                   THEN [rq EXCEPT !.state = "thrown", !.statusCode = statusCode]
                   ELSE [rq EXCEPT !.redirectCount = @ + 1, !.requests = @ + 1,
                                   !.statusCode = statusCode]
    ELSE [rq EXCEPT !.state = "resolved", !.statusCode = statusCode]

\* The message checkUrl stores for a fault
ErrorOf(fault) ==
    CASE fault = "malformed" -> "Invalid URL"
      [] fault = "connection" -> "connect ECONNREFUSED"
      [] fault = "timeout" -> "Request timeout after 30000ms"
      [] fault = "redirects" -> "Too many redirects (max: 5)"
      [] fault = "noLocation" -> "Redirect without location header"
      [] fault = "status" -> "Unexpected status code: 500"
      [] fault = "content" -> "Expected content not found"
      [] fault = "slow" -> "Response time exceeds threshold"

\* checkUrl: the CheckResult of one attempt started at time t that settles now.
\* A rejection of makeRequest is caught (lines 75-78): the result keeps
\* sslInfo = null; a response that fails a check of lines 57-72 keeps its sslInfo.
CheckUrl(name, o, t) ==
    [success |-> o.fault = "none",
     error |-> IF o.fault = "none" THEN None ELSE Some(ErrorOf(o.fault)),
     responseTime |-> Some(now - t),
     sslInfo |-> IF Rejects(o.fault) THEN None ELSE o.days,
     timestamp |-> ToISOString(t)]

-----------------------------------------------------------------------------
(* status-page.ts *)

\* Mutant: only what is older than 90 days is dropped, nothing is added
AddIncident_Skips(list, service, error, timestamp, t) ==
    LET cutoff == t - IncidentRetentionDays * Day
    IN SelectSeqBy(list, {i \in 1..Len(list) : GetTime(list[i].timestamp) > cutoff})

\* addIncident: unshift, then drop what is older than 90 days
AddIncident(list, service, error, timestamp, t) ==
    LET added == <<[service |-> service, error |-> error, timestamp |-> timestamp,
                    resolved |-> FALSE, resolvedAt |-> None]>> \o list
        cutoff == t - IncidentRetentionDays * Day
    IN SelectSeqBy(added, {i \in 1..Len(added) : GetTime(added[i].timestamp) > cutoff})

\* Mutant: the find forgets `!i.resolved`
FindUnresolved_AnyState(list, service) ==
    LET hits == {i \in 1..Len(list) : list[i].service = service}
    IN IF hits = {} THEN 0 ELSE CHOOSE i \in hits : \A j \in hits : i <= j

\* Array.prototype.find: the first index that matches, 0 when none does
FindUnresolved(list, service) ==
    LET hits == {i \in 1..Len(list) : list[i].service = service /\ ~list[i].resolved}
    IN IF hits = {} THEN 0 ELSE CHOOSE i \in hits : \A j \in hits : i <= j

\* resolveIncident
ResolveIncident(list, service, t) ==
    LET i == FindUnresolved(list, service)
    IN IF i = 0 THEN list
       ELSE [list EXCEPT ![i] = [@ EXCEPT !.resolved = TRUE,
                                          !.resolvedAt = Some(ToISOString(t))]]

\* updateStatus
UpdateStatus(services) == [services |-> services]

-----------------------------------------------------------------------------
(* store.ts *)

\* Mutant: `>=` for `>`, the check at the cutoff is kept
Prune_KeepsBoundary(data, retention, t) ==
    LET cutoff == t - retention * Day
        kept(n) == SelectSeqBy(data[n],
                     {i \in 1..Len(data[n]) : GetTime(data[n][i].timestamp) >= cutoff})
    IN [n \in {m \in DOMAIN data : kept(m) # <<>>} |-> kept(n)]

\* prune
Prune(data, retention, t) ==
    LET cutoff == t - retention * Day
        kept(n) == SelectSeqBy(data[n],
                     {i \in 1..Len(data[n]) : GetTime(data[n][i].timestamp) > cutoff})
    IN [n \in {m \in DOMAIN data : kept(m) # <<>>} |-> kept(n)]

\* Mutant: the target's log is replaced by the new entry
RecordCheck_Replaces(data, name, result, retention, t) ==
    LET pushed == MapSet(data, name,
                    <<[timestamp |-> result.timestamp,
                       success |-> result.success,
                       responseTime |-> result.responseTime,
                       error |-> result.error]>>)
    IN Prune(pushed, retention, t)

\* recordCheck
RecordCheck(data, name, result, retention, t) ==
    LET old == IF name \in DOMAIN data THEN data[name] ELSE <<>>
        pushed == MapSet(data, name,
                    Append(old, [timestamp |-> result.timestamp,
                                 success |-> result.success,
                                 responseTime |-> result.responseTime,
                                 error |-> result.error]))
    IN Prune(pushed, retention, t)

\* recordCheck called with an undefined result: the target's log is created when
\* it is absent (lines 448-450), then reading result.timestamp throws
Touch(data, name) == IF name \in DOMAIN data THEN data ELSE MapSet(data, name, <<>>)

\* getChecks: data.checks[name] || []
GetChecks(data, name) == IF name \in DOMAIN data THEN data[name] ELSE <<>>

\* Array.prototype.slice(start): a negative start counts from the end, and -0 is 0
Slice(s, start) ==
    LET n == Len(s)
        k == IF start < 0 THEN (IF n + start > 0 THEN n + start ELSE 0)
             ELSE (IF start < n THEN start ELSE n)
    IN SubSeq(s, k + 1, n)

\* getRecentChecks: checks.slice(-limit)
GetRecentChecks(data, name, limit) == Slice(GetChecks(data, name), 0 - limit)

\* Math.floor(ms / hourMs) * hourMs
HourStart(t) == (t \div Hour) * Hour

\* Mutant: Math.floor for Math.round
Round_Floor(n, d) == n \div d

\* Math.round(n / d) for n >= 0 and d > 0: halves round up
Round(n, d) == (2 * n + d) \div (2 * d)

RECURSIVE Fill(_, _)
\* getHourlyAverages lines 506-520: the bucket of hour k after the loop over cs
Fill(cs, k) ==
    IF cs = <<>> THEN [total |-> 0, count |-> 0, upCount |-> 0]
    ELSE LET n == Len(cs)
             b == Fill(SubSeq(cs, 1, n - 1), k)
             check == cs[n]
         IN IF HourStart(GetTime(check.timestamp)) # k THEN b
            ELSE [total |-> IF check.responseTime # None
                            THEN b.total + check.responseTime[1] ELSE b.total,
                  count |-> IF check.responseTime # None THEN b.count + 1 ELSE b.count,
                  upCount |-> IF check.success THEN b.upCount + 1 ELSE b.upCount]

\* getHourlyAverages at time t: no buckets for a target without checks; else one
\* bucket for each key of the map, in ascending order of the keys
GetHourlyAverages(data, name, hours, t) ==
    LET cs == GetChecks(data, name)
        keys == {HourStart(t - i * Hour) : i \in 0..(hours - 1)}
        sortedKeys == [i \in 1..Cardinality(keys) |->
                         CHOOSE k \in keys : Cardinality({x \in keys : x < k}) = i - 1]
        out(k) == LET bucket == Fill(cs, k)
                  IN [hour |-> ToISOString(k),
                      avgResponseTime |-> IF bucket.count > 0
                                          THEN Some(Round(bucket.total, bucket.count))
                                          ELSE None,
                      uptime |-> IF bucket.count > 0
                                 THEN Some(Round(bucket.upCount * 100, bucket.count))
                                 ELSE None,
                      checkCount |-> bucket.count]
    IN IF cs = <<>> THEN <<>>
       ELSE [i \in 1..Cardinality(keys) |-> out(sortedKeys[i])]

-----------------------------------------------------------------------------
(* notify.ts *)

\* Mutant: sendEmail lets the error of sendMail through
SendEmail_Throws(delivered) == IF delivered THEN "fulfilled" ELSE "rejected"

\* sendEmail: the promise it returns is fulfilled whether sendMail delivered the
\* message or threw (the catch of lines 59-61)
SendEmail(delivered) == "fulfilled"

-----------------------------------------------------------------------------
(* index.ts *)

RetryCount(alerts) == OrDefault(alerts.retry_count, DefaultRetryCount)
RetryDelay(alerts) == OrDefault(alerts.retry_delay, DefaultRetryDelay)
Cooldown(alerts) == OrDefault(alerts.cooldown_period, DefaultCooldown)
AlertOnRecovery(alerts) == alerts.alert_on_recovery # Some(FALSE)

\* Mutant: `>=` for `>`
CooldownElapsed_AtBoundary(t, last, cooldown) == t - last >= cooldown

\* Date.now() - last > cooldown
CooldownElapsed(t, last, cooldown) == t - last > cooldown

\* runCheck up to its first await: the configuration and the previous state are
\* read, and the first attempt is started.
RunCheckStart(name, cfg, us, t) ==
    [name |-> name,
     alerts |-> cfg.alerts,
     prev |-> IF name \in DOMAIN us THEN us[name].status ELSE "none",
     pc |-> "probe",
     attempts |-> 0,
     ts |-> t,
     sleepAt |-> 0,
     result |-> None,
     outs |-> <<>>,
     sleeps |-> 0]

\* The UrlState runCheck stores for a result
UrlStateOf(name, r) ==
    [status |-> IF r.success THEN "up" ELSE "down",
     lastCheck |-> r.timestamp,
     responseTime |-> r.responseTime,
     error |-> r.error,
     sslInfo |-> r.sslInfo,
     name |-> name]

\* Mutant: every failed cycle counts as a transition to down
DownTransition_Level(r, prev) == ~r.success

\* Mutant: the comparison is with 'up', so a target already down counts as changed
DownTransition_NotUp(r, prev) == ~r.success /\ prev # "up"

\* !result.success && prevState?.status !== 'down'
DownTransition(r, prev) == ~r.success /\ prev # "down"

\* result.success && prevState?.status === 'down'
UpTransition(r, prev) == r.success /\ prev = "down"

\* Mutant: the suppression is looked up under the status-change key
SslDue_WrongKey(r, la, name, t) ==
    /\ r.sslInfo # None
    /\ r.sslInfo[1] <= SSL_WARNING_DAYS
    /\ CooldownElapsed(t, GetOrZero(la, name), SslCooldown)

\* result.sslInfo && result.sslInfo.daysRemaining <= SSL_WARNING_DAYS, and the
\* 24-hour suppression under the key `ssl-${name}`
SslDue(r, la, name, t) ==
    /\ r.sslInfo # None
    /\ r.sslInfo[1] <= SSL_WARNING_DAYS
    /\ CooldownElapsed(t, GetOrZero(la, "ssl-" \o name), SslCooldown)

RECURSIVE Services_Reversed(_, _)
\* Mutant: the states are collected last target first
Services_Reversed(urls, us) ==
    IF urls = <<>> THEN <<>>
    ELSE LET n == Len(urls)
             front == Services_Reversed(SubSeq(urls, 1, n - 1), us)
         IN IF urls[n].name \in DOMAIN us THEN <<us[urls[n].name]>> \o front
            ELSE front

RECURSIVE Services(_, _)
\* updateStatusPage: the states of the configured targets, in configuration order
Services(urls, us) ==
    IF urls = <<>> THEN <<>>
    ELSE LET n == Len(urls)
             front == Services(SubSeq(urls, 1, n - 1), us)
         IN IF urls[n].name \in DOMAIN us THEN Append(front, us[urls[n].name])
            ELSE front

\* Mutant: the loop gives up after the first failed attempt
RetryAgain_GivesUp(attempts, retryCount) == FALSE

\* Mutant: `<=` for `<`
RetryAgain_OneMore(attempts, retryCount) == attempts + 1 <= retryCount

\* checkWithRetry after a failed attempt: attempts++, then `attempts < retryCount`
RetryAgain(attempts, retryCount) == attempts + 1 < retryCount

\* The history of a name, with one more event
Logged(lg, name, ev) ==
    MapSet(lg, name, Append(IF name \in DOMAIN lg THEN lg[name] ELSE <<>>, ev))

\* Mutant: the recovery alert is gated by the cooldown like the down alert
FirstCall_RecoveryGated(cr, r, la, t) ==
    IF DownTransition(r, cr.prev)
    THEN IF CooldownElapsed(t, GetOrZero(la, cr.name), Cooldown(cr.alerts))
         THEN "notifyDown" ELSE "ssl"
    ELSE IF /\ UpTransition(r, cr.prev) /\ AlertOnRecovery(cr.alerts)
            /\ CooldownElapsed(t, GetOrZero(la, cr.name), Cooldown(cr.alerts))
         THEN "notifyUp" ELSE "ssl"

\* What a completing cycle does first after checkWithRetry has returned
FirstCall(cr, r, la, t) ==
    IF DownTransition(r, cr.prev)
    THEN IF CooldownElapsed(t, GetOrZero(la, cr.name), Cooldown(cr.alerts))
         THEN "notifyDown" ELSE "ssl"
    ELSE IF UpTransition(r, cr.prev) /\ AlertOnRecovery(cr.alerts)
         THEN "notifyUp" ELSE "ssl"

\* The time of the last event of a kind in a history, if any
LastAt(events, kind) ==
    LET hits == {i \in 1..Len(events) : events[i].kind = kind}
    IN IF hits = {} THEN None
       ELSE Some(events[CHOOSE i \in hits : \A j \in hits : j <= i].at)

\* runCheck lines 108-122: the SSL-expiry alert is called, or the projection is
\* refreshed and the cycle ends.  lg is the history so far.
SslSection(c, cr, la, us, lg) ==
    IF SslDue(cr.result[1], la, cr.name, now)
    THEN /\ cyc' = [cyc EXCEPT ![c] = [cr EXCEPT !.pc = "notifySsl"]]
         /\ log' = Logged(lg, cr.name, [kind |-> "notifySsl", at |-> now, cd |-> SslCooldown])
         /\ UNCHANGED statusData
    ELSE /\ cyc' = Remove(cyc, c)
         /\ log' = IF cr.result[1].sslInfo # None
                      /\ cr.result[1].sslInfo[1] <= SSL_WARNING_DAYS
                   THEN Logged(lg, cr.name,
                               [kind |-> "sslSkip", at |-> now,
                                last |-> LastAt(lg[cr.name], "sslStamp")])
                   ELSE lg
         /\ statusData' = UpdateStatus(Services(config.urls, us))

\* runCheck lines 73-106, entered when checkWithRetry has returned r
Complete(c, cr0, r) ==
    LET name == cr0.name
        cr == [cr0 EXCEPT !.result = Some(r)]
        us == MapSet(urlStates, name, UrlStateOf(name, r))
        seen == IF name \in DOMAIN urlStates THEN urlStates[name].status ELSE "none"
        call == FirstCall(cr, r, lastAlert, now)
        before == IF name \in DOMAIN log THEN log[name] ELSE <<>>
        lg == Logged(log, name, [kind |-> "status", status |-> us[name].status,
                                 success |-> r.success])
    IN /\ checks' = RecordCheck(checks, name, r, retentionDays, now)
       /\ urlStates' = us
       /\ UNCHANGED <<lastAlert, incidents>>
       /\ lastCycle' = Some([name |-> name, alerts |-> cr.alerts, prev |-> cr.prev,
                             seen |-> seen, result |-> r, outs |-> cr.outs,
                             sleeps |-> cr.sleeps, call |-> call, at |-> now,
                             nth |-> Len(lg[name]),
                             priorDown |-> LastAt(before, "notifyDown")])
       /\ IF call = "ssl"
          THEN SslSection(c, cr, lastAlert, us, lg)
          ELSE /\ cyc' = [cyc EXCEPT ![c] = [cr EXCEPT !.pc = call]]
               /\ log' = Logged(lg, name, [kind |-> call, at |-> now,
                                           cd |-> Cooldown(cr.alerts)])
               /\ UNCHANGED statusData

\* Mutant: every failed attempt marks the target down
RetrySleep_WritesStatus(c, cr) ==
    /\ cyc' = [cyc EXCEPT ![c] = [cr EXCEPT !.attempts = @ + 1, !.pc = "sleep",
                                            !.sleepAt = now, !.sleeps = @ + 1]]
    /\ urlStates' = MapSet(urlStates, cr.name,
                           UrlStateOf(cr.name, [success |-> FALSE, error |-> Some("error"),
                                                sslInfo |-> None, responseTime |-> None,
                                                timestamp |-> ToISOString(cr.ts)]))
    /\ UNCHANGED <<lastAlert, incidents, statusData, checks, log, lastCycle>>

\* checkWithRetry lines 55-58 after a failed attempt that is not the last:
\* attempts++, and the cycle sleeps
RetrySleep(c, cr) ==
    /\ cyc' = [cyc EXCEPT ![c] = [cr EXCEPT !.attempts = @ + 1, !.pc = "sleep",
                                            !.sleepAt = now, !.sleeps = @ + 1]]
    /\ UNCHANGED <<urlStates, lastAlert, incidents, statusData, checks, log, lastCycle>>

\* checkWithRetry: one attempt settles with outcome o
ProbeSettle(c, o) ==
    /\ ~halted
    /\ cyc[c].pc = "probe"
    /\ IF Uncaught(o.fault)
       THEN /\ halted' = TRUE
            /\ log' = Logged(log, cyc[c].name, [kind |-> "uncaught"])
            /\ UNCHANGED <<cyc, urlStates, lastAlert, incidents, statusData, checks,
                           lastCycle>>
       ELSE /\ halted' = halted
            /\ LET r == CheckUrl(cyc[c].name, o, cyc[c].ts)
                   cr == [cyc[c] EXCEPT !.outs = Append(@, r.success)]
               IN IF r.success
                  THEN Complete(c, cr, r)
                  ELSE IF RetryAgain(cr.attempts, RetryCount(cr.alerts))
                       THEN RetrySleep(c, cr)
                       ELSE Complete(c, [cr EXCEPT !.attempts = @ + 1], r)
    /\ UNCHANGED <<req, answer, now, advances, config, reloads, timers, activeTimers, timerSeq,
                   started, retentionDays, env, overlapped>>

\* checkWithRetry: sleep(retryDelay) is over, and the next attempt starts
SleepDone(c) ==
    /\ ~halted
    /\ cyc[c].pc = "sleep"
    /\ now - cyc[c].sleepAt >= RetryDelay(cyc[c].alerts)
    /\ cyc' = [cyc EXCEPT ![c] = [@ EXCEPT !.pc = "probe", !.ts = now]]
    /\ UNCHANGED <<req, answer, now, advances, config, reloads, timers, activeTimers, timerSeq,
                   started, urlStates, lastAlert, incidents, statusData, checks,
                   retentionDays, env, halted, overlapped, log, lastCycle>>

\* runCheck lines 94-96 after `await notifyDown`, then on to the SSL section
NotifyDownDone(c, delivered) ==
    /\ ~halted
    /\ cyc[c].pc = "notifyDown"
    /\ LET cr == cyc[c]
           r == cr.result[1]
           la == MapSet(lastAlert, cr.name, now)
       IN IF SendEmail(delivered) = "fulfilled"
          THEN /\ incidents' = AddIncident(incidents, cr.name, r.error, r.timestamp, now)
               /\ lastAlert' = la
               /\ halted' = halted
               /\ SslSection(c, cr, la, urlStates,
                             Logged(log, cr.name,
                                    [kind |-> "addIncident", delivered |-> delivered,
                                     opened |-> /\ incidents' # <<>>
                                                /\ incidents'[1].service = cr.name
                                                /\ ~incidents'[1].resolved,
                                     stamped |-> GetOrZero(lastAlert', cr.name) = now,
                                     status |-> urlStates[cr.name].status]))
          ELSE /\ cyc' = Remove(cyc, c)
               /\ log' = Logged(log, cr.name, [kind |-> "rejected", cause |-> "notify"])
               /\ halted' = env.exitOnRejection
               /\ UNCHANGED <<incidents, lastAlert, statusData>>
    /\ UNCHANGED <<req, answer, now, advances, config, reloads, timers, activeTimers, timerSeq,
                   started, urlStates, checks, retentionDays, env, overlapped, lastCycle>>

\* runCheck lines 101-102 after `await notifyUp`, then on to the SSL section
NotifyUpDone(c) ==
    /\ ~halted
    /\ cyc[c].pc = "notifyUp"
    /\ LET cr == cyc[c]
           hit == \E i \in 1..Len(incidents) :
                     incidents[i].service = cr.name /\ ~incidents[i].resolved
       IN /\ incidents' = ResolveIncident(incidents, cr.name, now)
          /\ SslSection(c, cr, lastAlert, urlStates,
                        Logged(log, cr.name, [kind |-> "resolveIncident", hit |-> hit,
                                              same |-> incidents' = incidents]))
    /\ UNCHANGED <<req, answer, now, advances, config, reloads, timers, activeTimers, timerSeq,
                   started, urlStates, lastAlert, checks, retentionDays, env, halted,
                   overlapped, lastCycle>>

\* runCheck lines 117-122 after `await notifySslExpiring`
NotifySslDone(c) ==
    /\ ~halted
    /\ cyc[c].pc = "notifySsl"
    /\ lastAlert' = MapSet(lastAlert, "ssl-" \o cyc[c].name, now)
    /\ cyc' = Remove(cyc, c)
    /\ statusData' = UpdateStatus(Services(config.urls, urlStates))
    /\ log' = Logged(log, cyc[c].name, [kind |-> "sslStamp", at |-> now])
    /\ UNCHANGED <<req, answer, now, advances, config, reloads, timers, activeTimers, timerSeq,
                   started, urlStates, incidents, checks, retentionDays, env, halted,
                   overlapped, lastCycle>>

\* checkWithRetry line 48 on entry: `attempts < retryCount` is false, the loop body
\* never runs and `result!` (line 61) is undefined
EmptyLoop(alerts) == ~(0 < RetryCount(alerts))

RECURSIVE Rejected(_, _)
\* The cycles started for urls when the loop is empty: each gets undefined from
\* checkWithRetry without suspending on I/O, recordCheck throws on it, and the
\* promise of runCheck is rejected.  st is the store and the history.
Rejected(urls, st) ==
    IF urls = <<>> THEN st
    ELSE Rejected(Tail(urls),
                  [checks |-> Touch(st.checks, urls[1].name),
                   log |-> Logged(st.log, urls[1].name,
                                  [kind |-> "rejected", cause |-> "result"])])

\* The names with a cycle in flight
Running == {cyc[i].name : i \in 1..Len(cyc)}

\* Mutant: a timer's cycle waits until no cycle of any target is in flight
Tick_Serial(tm) ==
    /\ ~halted
    /\ tm \in activeTimers
    /\ started < env.maxCycles
    /\ Len(cyc) < MaxInFlight
    /\ Running = {}
    /\ started' = started + 1
    /\ IF EmptyLoop(config.alerts)
       THEN LET st == Rejected(<<tm.url>>, [checks |-> checks, log |-> log])
            IN /\ checks' = st.checks
               /\ log' = st.log
               /\ halted' = env.exitOnRejection
               /\ UNCHANGED <<cyc, overlapped>>
       ELSE /\ cyc' = Append(cyc, RunCheckStart(tm.url.name, config, urlStates, now))
            /\ overlapped' = IF tm.url.name \in Running
                             THEN overlapped \cup {tm.url.name} ELSE overlapped
            /\ UNCHANGED <<checks, log, halted>>
    /\ UNCHANGED <<req, answer, now, advances, config, reloads, timers, activeTimers, timerSeq,
                   urlStates, lastAlert, incidents, statusData, retentionDays,
                   env, lastCycle>>

\* setInterval(() => runCheck(urlConfig), delay) fires
Tick(tm) ==
    /\ ~halted
    /\ tm \in activeTimers
    /\ started < env.maxCycles
    /\ Len(cyc) < MaxInFlight
    /\ env.sequential => tm.url.name \notin Running
    /\ started' = started + 1
    /\ IF EmptyLoop(config.alerts)
       THEN LET st == Rejected(<<tm.url>>, [checks |-> checks, log |-> log])
            IN /\ checks' = st.checks
               /\ log' = st.log
               /\ halted' = env.exitOnRejection
               /\ UNCHANGED <<cyc, overlapped>>
       ELSE /\ cyc' = Append(cyc, RunCheckStart(tm.url.name, config, urlStates, now))
            /\ overlapped' = IF tm.url.name \in Running
                             THEN overlapped \cup {tm.url.name} ELSE overlapped
            /\ UNCHANGED <<checks, log, halted>>
    /\ UNCHANGED <<req, answer, now, advances, config, reloads, timers, activeTimers, timerSeq,
                   urlStates, lastAlert, incidents, statusData, retentionDays,
                   env, lastCycle>>

\* scheduleChecks: the cycles it starts, the timers it sets
Started(cfg, us, t) ==
    [i \in 1..Len(cfg.urls) |-> RunCheckStart(cfg.urls[i].name, cfg, us, t)]
NewTimers(urls, first) ==
    {[id |-> first + i - 1, url |-> urls[i]] : i \in 1..Len(urls)}
TimerMap(urls, first) ==
    [n \in {urls[i].name : i \in 1..Len(urls)} |->
        first + (CHOOSE i \in 1..Len(urls) :
                    /\ urls[i].name = n
                    /\ \A j \in 1..Len(urls) : urls[j].name = n => j <= i) - 1]
Twice(urls) ==
    {urls[i].name : i \in {k \in 1..Len(urls) :
                             \E j \in 1..Len(urls) : j # k /\ urls[j].name = urls[k].name}}

\* Mutant: scheduleChecks also clears state.urlStates and state.lastAlert
Reload_ClearsState(cfg) ==
    /\ ~halted
    /\ reloads < env.maxReloads
    /\ started + Len(cfg.urls) <= env.maxCycles
    /\ Len(cyc) + Len(cfg.urls) <= MaxInFlight
    /\ env.sequential =>
          /\ {cfg.urls[i].name : i \in 1..Len(cfg.urls)} \cap Running = {}
          /\ Twice(cfg.urls) = {}
    /\ reloads' = reloads + 1
    /\ started' = started + Len(cfg.urls)
    /\ config' = cfg
    /\ LET cleared == {timers[n] : n \in DOMAIN timers}
       IN activeTimers' = {tm \in activeTimers : tm.id \notin cleared}
                            \cup NewTimers(cfg.urls, timerSeq)
    /\ timers' = TimerMap(cfg.urls, timerSeq)
    /\ timerSeq' = timerSeq + Len(cfg.urls)
    /\ IF EmptyLoop(cfg.alerts) /\ cfg.urls # <<>>
       THEN LET st == Rejected(cfg.urls, [checks |-> checks, log |-> log])
            IN /\ checks' = st.checks
               /\ log' = st.log
               /\ halted' = env.exitOnRejection
               /\ UNCHANGED <<cyc, overlapped>>
       ELSE /\ cyc' = cyc \o Started(cfg, urlStates, now)
            /\ overlapped' = overlapped
                               \cup ({cfg.urls[i].name : i \in 1..Len(cfg.urls)} \cap Running)
                               \cup Twice(cfg.urls)
            /\ UNCHANGED <<checks, log, halted>>
    /\ urlStates' = <<>>
    /\ lastAlert' = <<>>
    /\ UNCHANGED <<req, answer, now, advances, incidents, statusData, retentionDays, env, lastCycle>>

\* config.ts reload with a readable file, and the listener of main: scheduleChecks
Reload(cfg) ==
    /\ ~halted
    /\ reloads < env.maxReloads
    /\ started + Len(cfg.urls) <= env.maxCycles
    /\ Len(cyc) + Len(cfg.urls) <= MaxInFlight
    /\ env.sequential =>
          /\ {cfg.urls[i].name : i \in 1..Len(cfg.urls)} \cap Running = {}
          /\ Twice(cfg.urls) = {}
    /\ reloads' = reloads + 1
    /\ started' = started + Len(cfg.urls)
    /\ config' = cfg
    /\ LET cleared == {timers[n] : n \in DOMAIN timers}
       IN activeTimers' = {tm \in activeTimers : tm.id \notin cleared}
                            \cup NewTimers(cfg.urls, timerSeq)
    /\ timers' = TimerMap(cfg.urls, timerSeq)
    /\ timerSeq' = timerSeq + Len(cfg.urls)
    /\ IF EmptyLoop(cfg.alerts) /\ cfg.urls # <<>>
       THEN LET st == Rejected(cfg.urls, [checks |-> checks, log |-> log])
            IN /\ checks' = st.checks
               /\ log' = st.log
               /\ halted' = env.exitOnRejection
               /\ UNCHANGED <<cyc, overlapped>>
       ELSE /\ cyc' = cyc \o Started(cfg, urlStates, now)
            /\ overlapped' = overlapped
                               \cup ({cfg.urls[i].name : i \in 1..Len(cfg.urls)} \cap Running)
                               \cup Twice(cfg.urls)
            /\ UNCHANGED <<checks, log, halted>>
    /\ UNCHANGED <<req, answer, now, advances, urlStates, lastAlert, incidents, statusData,
                   retentionDays, env, lastCycle>>

\* config.ts reload when readFileSync or parseYaml throws: the catch logs the error;
\* `config` is not assigned and the listeners are not called
ReloadFail ==
    /\ ~halted
    /\ reloads < env.maxReloads
    /\ reloads' = reloads + 1
    /\ UNCHANGED <<req, answer, now, advances, config, timers, activeTimers, timerSeq, cyc, started,
                   urlStates, lastAlert, incidents, statusData, checks, retentionDays,
                   env, halted, overlapped, log, lastCycle>>

\* What parseYaml can return for the file at a reload: the file with one alerts
\* option edited, or with another target list or history retention.  A file
\* without `urls` is the empty list: scheduleChecks returns at line 149 as it does
\* after a loop over no targets.
Files(cfg) ==
    IF env.reloadLists = {} /\ env.reloadRetentions = {} THEN Edits(cfg)
    ELSE {[cfg EXCEPT !.urls = u, !.storage.retention_days = r] :
             u \in IF env.reloadLists = {} THEN {cfg.urls} ELSE env.reloadLists,
             r \in IF env.reloadRetentions = {} THEN {cfg.storage.retention_days}
                    ELSE env.reloadRetentions}

\* Time passes
Advance(d) ==
    /\ ~halted
    /\ advances < env.maxAdvance
    /\ advances' = advances + 1
    /\ now' = now + d
    /\ UNCHANGED <<req, answer, config, reloads, timers, activeTimers, timerSeq, cyc, started,
                   urlStates, lastAlert, incidents, statusData, checks, retentionDays,
                   env, halted, overlapped, log, lastCycle>>

\* The scheduling regimes: in a sequential run a timer fires, and the configuration
\* is reloaded, only when no cycle of the same target is in flight (the interval is
\* longer than a cycle takes); otherwise they come at any time.
Regime(sequential, maxCycles, maxAdvance, maxReloads, retryCounts) ==
    [sequential |-> sequential, maxCycles |-> maxCycles, maxAdvance |-> maxAdvance,
     maxReloads |-> maxReloads, retryCounts |-> retryCounts,
     urlLists |-> UrlLists, recovery |-> {None, Some(FALSE)},
     cooldowns |-> {None, Some(10)}, retentions |-> {None}, reloadLists |-> {},
     deliveries |-> {TRUE}, exitOnRejection |-> FALSE, outcomes |-> Outcomes,
     retryDelays |-> {None}, incidentRetentions |-> {None}, reloadRetentions |-> {}]

Envs ==
    {Regime(TRUE, FlapCycles, FlapAdvance, FlapReloads, {Some(1)}),
     Regime(TRUE, RetryCycles, RetryAdvance, MaxReloads, {None, Some(2)}),
     Regime(FALSE, OvCycles, OvAdvance, MaxReloads, {None, Some(1)})}

\* main(): the configuration is loaded, the store initialised, the checks scheduled
InitIn(regimes) ==
    /\ now = StartTime
    /\ advances = 0
    /\ env \in regimes
    /\ config \in InitConfigs(env)
    /\ reloads = 0
    /\ timers = TimerMap(config.urls, 1)
    /\ activeTimers = NewTimers(config.urls, 1)
    /\ timerSeq = Len(config.urls) + 1
    /\ urlStates = <<>>
    /\ started = Len(config.urls)
    /\ lastAlert = <<>>
    /\ incidents = <<>>
    /\ statusData = [services |-> <<>>]
    /\ retentionDays = OrDefault(config.storage.retention_days, DefaultRetentionDays)
    /\ lastCycle = None
    /\ answer = None
    /\ IF EmptyLoop(config.alerts) /\ config.urls # <<>>
       THEN LET st == Rejected(config.urls, [checks |-> <<>>, log |-> <<>>])
            IN /\ checks = st.checks
               /\ log = st.log
               /\ halted = env.exitOnRejection
               /\ cyc = <<>>
               /\ overlapped = {}
       ELSE /\ checks = <<>>
            /\ log = <<>>
            /\ halted = FALSE
            /\ cyc = Started(config, <<>>, StartTime)
            /\ overlapped = Twice(config.urls)

Init == InitIn(Envs) /\ req = None

Next ==
    \/ \E d \in Jumps : Advance(d)
    \/ \E tm \in activeTimers : Tick(tm)
    \/ \E c \in 1..Len(cyc), o \in env.outcomes : ProbeSettle(c, o)
    \/ \E c \in 1..Len(cyc) : SleepDone(c)
    \/ \E c \in 1..Len(cyc), delivered \in env.deliveries : NotifyDownDone(c, delivered)
    \/ \E c \in 1..Len(cyc) : NotifyUpDone(c)
    \/ \E c \in 1..Len(cyc) : NotifySslDone(c)
    \/ \E cfg \in Files(config) : Reload(cfg)
    \/ ReloadFail

Spec == Init /\ [][Next]_vars

\* Regimes with several targets, target lists that change at a reload, a short
\* history retention, an unreliable mail transport, retry counts below one, a
\* configured incident retention, every probe fault, a history retention that a
\* reload changes, and options configured as 0.
\* Cycles of one target do not overlap in the sequential ones.
FleetEnvs ==
    {[Regime(TRUE, PairCycles, PairAdvance, 0, {Some(1), Some(2)}) EXCEPT
         !.urlLists = {<<[name |-> "A"], [name |-> "B"]>>,
                       <<[name |-> "A"], [name |-> "ssl-A"]>>},
         !.recovery = {None}, !.cooldowns = {None}],
     [Regime(FALSE, ListCycles, 0, ListReloads, {Some(1)}) EXCEPT
         !.reloadLists = {<<>>, <<[name |-> "A"], [name |-> "A"]>>, <<[name |-> "B"]>>},
         !.outcomes = {o \in Outcomes : o.days = None},
         !.recovery = {None}, !.cooldowns = {None}],
     [Regime(TRUE, StoreCycles, StoreAdvance, 0, {Some(1)}) EXCEPT
         !.urlLists = {<<[name |-> "A"], [name |-> "B"]>>},
         !.retentions = {Some(1)},
         !.outcomes = {o \in Outcomes : o.days = None},
         !.recovery = {None}, !.cooldowns = {None}],
     [Regime(TRUE, FlakyCycles, 1, 0, {Some(1)}) EXCEPT
         !.deliveries = {TRUE, FALSE},
         !.recovery = {None}, !.cooldowns = {Some(10)}]}
    \cup {[Regime(TRUE, IncidentCycles, IncidentAdvance, 0, {Some(1)}) EXCEPT
              !.incidentRetentions = {Some(1)},
              !.outcomes = {o \in Outcomes : o.days = None},
              !.recovery = {None}, !.cooldowns = {None}],
          [Regime(TRUE, ProbeCycles, 0, 0, {Some(1)}) EXCEPT
              !.urlLists = {<<[name |-> "A"], [name |-> "B"]>>},
              !.outcomes = FaultOutcomes,
              !.recovery = {None}, !.cooldowns = {None}],
          [Regime(TRUE, RetentionCycles, RetentionAdvance, MaxReloads, {Some(1)}) EXCEPT
              !.retentions = {None, Some(1)},
              !.reloadRetentions = {None, Some(1)},
              !.outcomes = {o \in Outcomes : o.days = None},
              !.recovery = {None}, !.cooldowns = {None}],
          [Regime(TRUE, ZeroCycles, ZeroAdvance, 0, {Some(1), Some(2)}) EXCEPT
              !.retryDelays = {Some(0)},
              !.outcomes = {o \in Outcomes : o.days = None},
              !.recovery = {None}, !.cooldowns = {Some(0)}]}
    \cup {[Regime(TRUE, EmptyCycles, 0, MaxReloads, {Some(0 - 1), Some(0)}) EXCEPT
              !.reloadLists = {<<[name |-> "A"]>>},
              !.recovery = {None}, !.cooldowns = {None},
              !.exitOnRejection = x] : x \in BOOLEAN}

InitFleet == InitIn(FleetEnvs) /\ req = None

SpecFleet == InitFleet /\ [][Next]_vars

\* The settings a probe is started with, and what a server can answer
SettingsChoices ==
    [follow_redirects : {None, Some(FALSE)},
     max_redirects : {None, Some(0), Some(1), Some(2)}]
StatusCodes == {200, 500} \cup RedirectCodes
Locations == {"absent", "unparseable", "url"}

\* The response to the request in flight has ended
ResponseEnd(statusCode, location) ==
    /\ req # None
    /\ req[1].state = "pending"
    /\ req' = Some(OnEnd(req[1], statusCode, location))
    /\ UNCHANGED <<answer, now, advances, config, reloads, timers, activeTimers,
                   timerSeq, cyc, started, urlStates, lastAlert, incidents, statusData,
                   checks, retentionDays, env, halted, overlapped, log, lastCycle>>

\* makeRequest lines 150-152: the request in flight emits 'error'
RequestError ==
    /\ req # None
    /\ req[1].state = "pending"
    /\ req' = Some([req[1] EXCEPT !.state = "rejected", !.error = "connect ECONNREFUSED"])
    /\ UNCHANGED <<answer, now, advances, config, reloads, timers, activeTimers,
                   timerSeq, cyc, started, urlStates, lastAlert, incidents, statusData,
                   checks, retentionDays, env, halted, overlapped, log, lastCycle>>

\* makeRequest lines 154-157: the request in flight times out
RequestTimeout ==
    /\ req # None
    /\ req[1].state = "pending"
    /\ req' = Some([req[1] EXCEPT !.state = "rejected", !.error = "Request timeout"])
    /\ UNCHANGED <<answer, now, advances, config, reloads, timers, activeTimers,
                   timerSeq, cyc, started, urlStates, lastAlert, incidents, statusData,
                   checks, retentionDays, env, halted, overlapped, log, lastCycle>>

\* One probe of one target, followed request by request: the monitor has just
\* started the target's first cycle
RedirectEnvs ==
    {[Regime(TRUE, 1, 0, 0, {Some(1)}) EXCEPT !.recovery = {None}, !.cooldowns = {None}]}

InitRedirect ==
    /\ InitIn(RedirectEnvs)
    /\ \E settings \in SettingsChoices : req = Some(MakeRequest(settings))

NextRedirect ==
    \/ \E statusCode \in StatusCodes, location \in Locations :
          ResponseEnd(statusCode, location)
    \/ RequestError
    \/ RequestTimeout

SpecRedirect == InitRedirect /\ [][NextRedirect]_vars

\* The arguments the queries of the store are called with
QueryNames == {"A"}
Limits == {0, 1, 5}
HoursBack == {0, 2}

\* A caller of the store asks for the recent checks of a target
QueryRecent(name, limit) ==
    /\ ~halted
    /\ answer' = Some([fn |-> "getRecentChecks", name |-> name, arg |-> limit,
                       out |-> GetRecentChecks(checks, name, limit)])
    /\ UNCHANGED <<req, now, advances, config, reloads, timers, activeTimers, timerSeq,
                   cyc, started, urlStates, lastAlert, incidents, statusData, checks,
                   retentionDays, env, halted, overlapped, log, lastCycle>>

\* A caller of the store asks for the hourly averages of a target
QueryHourly(name, hours) ==
    /\ ~halted
    /\ answer' = Some([fn |-> "getHourlyAverages", name |-> name, arg |-> hours,
                       out |-> GetHourlyAverages(checks, name, hours, now)])
    /\ UNCHANGED <<req, now, advances, config, reloads, timers, activeTimers, timerSeq,
                   cyc, started, urlStates, lastAlert, incidents, statusData, checks,
                   retentionDays, env, halted, overlapped, log, lastCycle>>

\* One target checked in sequential cycles, and a store that is queried at any time
QueryEnvs ==
    {[Regime(TRUE, QueryCycles, QueryAdvance, 0, {Some(2)}) EXCEPT
         !.outcomes = {[fault |-> "none", days |-> Some(14)],
                       [fault |-> "connection", days |-> None]},
         !.recovery = {None}, !.cooldowns = {None}]}

InitQueries == InitIn(QueryEnvs) /\ req = None

NextQueries ==
    \/ \E d \in Jumps : Advance(d)
    \/ \E tm \in activeTimers : Tick(tm)
    \/ \E c \in 1..Len(cyc), o \in env.outcomes : ProbeSettle(c, o)
    \/ \E c \in 1..Len(cyc) : SleepDone(c)
    \/ \E c \in 1..Len(cyc), delivered \in env.deliveries : NotifyDownDone(c, delivered)
    \/ \E c \in 1..Len(cyc) : NotifyUpDone(c)
    \/ \E c \in 1..Len(cyc) : NotifySslDone(c)
    \/ \E name \in QueryNames, limit \in Limits : QueryRecent(name, limit)
    \/ \E name \in QueryNames, hours \in HoursBack : QueryHourly(name, hours)

SpecQueries == InitQueries /\ [][NextQueries]_vars

-----------------------------------------------------------------------------
(* Properties *)

Names == {"A"}
LogOf(n) == IF n \in DOMAIN log THEN log[n] ELSE <<>>
Events(n, kind) == {i \in 1..Len(LogOf(n)) : LogOf(n)[i].kind = kind}
StatusOf(n) == IF n \in DOMAIN urlStates THEN urlStates[n].status ELSE "none"
Unresolved(n) == {i \in 1..Len(incidents) : incidents[i].service = n /\ ~incidents[i].resolved}

\* Any two calls of a kind in the history of n are further apart than the cooldown
\* of the cycle that made the later one
Separated(n, kind) ==
    \A i, j \in Events(n, kind) :
        i < j => LogOf(n)[j].at - LogOf(n)[i].at > LogOf(n)[j].cd

\* The last completed cycle was a transition to down inside the cooldown window of
\* an earlier down-notification
SuppressedDown(lc) ==
    /\ ~lc.result.success
    /\ lc.prev # "down"
    /\ lc.priorDown # None
    /\ lc.at - lc.priorDown[1] <= Cooldown(lc.alerts)

\* C1: while the cycles of a target do not overlap, any two notifyDown calls for it
\* are more than cooldown_period apart; a transition to down inside the cooldown
\* window fires no notifyDown, and still sets the status to down and is recorded in
\* the history store.
C1_DownAlertsCooldown ==
    \A n \in Names \ overlapped :
        /\ Separated(n, "notifyDown")
        /\ (lastCycle # None /\ lastCycle[1].name = n /\ SuppressedDown(lastCycle[1])) =>
              /\ lastCycle[1].call # "notifyDown"
              /\ StatusOf(n) = "down"
              /\ n \in DOMAIN checks
              /\ checks[n][Len(checks[n])].timestamp = lastCycle[1].result.timestamp
              /\ ~checks[n][Len(checks[n])].success

C1_Witness ==
    /\ lastCycle # None
    /\ lastCycle[1].name \notin overlapped
    /\ SuppressedDown(lastCycle[1])
    /\ lastCycle[1].prev = "up"
    /\ Cardinality(Events(lastCycle[1].name, "notifyDown")) = 1

\* The entry of state.urlStates for n, <<>> when there is none
Entry(us, n) == IF n \in DOMAIN us THEN Some(us[n]) ELSE None

\* C2: the entry of a target in state.urlStates changes only in the step in which a
\* checkWithRetry of that target returns (its attempt succeeded, or it was the
\* last of retry_count attempts), and the status written is up exactly when that last
\* attempt succeeded; a failed attempt that is followed by a sleep writes nothing.
C2_StatusOnlyAtCycleEnd ==
    [][\A n \in Names :
         Entry(urlStates, n)' # Entry(urlStates, n) =>
            \E c \in 1..Len(cyc) :
               /\ cyc[c].name = n
               /\ cyc[c].pc = "probe"
               /\ lastCycle' # None
               /\ LET lc == lastCycle'[1]
                  IN /\ lc.name = n
                     /\ Len(lc.outs) = Len(cyc[c].outs) + 1
                     /\ lc.result.success = lc.outs[Len(lc.outs)]
                     /\ lc.result.success \/ Len(lc.outs) = RetryCount(lc.alerts)
                     /\ urlStates'[n].status = IF lc.result.success THEN "up" ELSE "down"]_vars

C2_Witness ==
    /\ lastCycle # None
    /\ Len(lastCycle[1].outs) >= 2
    /\ ~lastCycle[1].outs[1]
    /\ lastCycle[1].result.success
    /\ lastCycle[1].prev = "up"
    /\ StatusOf(lastCycle[1].name) = "up"

\* C3: a checkWithRetry with retry_count = N >= 1 that has returned made k probe
\* attempts, 1 <= k <= N, of which all but the last failed and the last succeeded
\* unless k = N; it returned the k-th attempt's outcome and slept k - 1 times.  A
\* cycle still in its loop has slept once per failed attempt.
C3_RetryLoop ==
    /\ lastCycle # None =>
          LET lc == lastCycle[1]
              k == Len(lc.outs)
              N == RetryCount(lc.alerts)
          IN N >= 1 =>
                /\ 1 <= k /\ k <= N
                /\ \A i \in 1..(k - 1) : ~lc.outs[i]
                /\ lc.outs[k] \/ k = N
                /\ lc.result.success = lc.outs[k]
                /\ lc.sleeps = k - 1
    /\ \A c \in 1..Len(cyc) :
          cyc[c].pc \in {"probe", "sleep"} =>
             /\ \A i \in 1..Len(cyc[c].outs) : ~cyc[c].outs[i]
             /\ cyc[c].sleeps = Len(cyc[c].outs)
             /\ Len(cyc[c].outs) < RetryCount(cyc[c].alerts)

C3_Witness ==
    /\ lastCycle # None
    /\ RetryCount(lastCycle[1].alerts) = 3
    /\ lastCycle[1].outs = <<FALSE, FALSE, TRUE>>
    /\ lastCycle[1].result.success
    /\ lastCycle[1].sleeps = 2

\* C4: a cycle that completes with success, whose previous status (the one it read
\* when it started; while the target's cycles do not overlap also the one stored
\* when it completes) was down and whose alert_on_recovery is not false, calls
\* notifyUp in its completing step, whatever the cooldown.
C4_RecoveryAlways ==
    lastCycle # None =>
       LET lc == lastCycle[1]
           wasDown == \/ lc.prev = "down"
                      \/ lc.name \notin overlapped /\ lc.seen = "down"
       IN (lc.result.success /\ wasDown /\ AlertOnRecovery(lc.alerts)) =>
             /\ lc.call = "notifyUp"
             /\ \E i \in Events(lc.name, "notifyUp") : LogOf(lc.name)[i].at = lc.at

C4_Witness ==
    /\ lastCycle # None
    /\ lastCycle[1].result.success
    /\ lastCycle[1].prev = "down"
    /\ lastCycle[1].priorDown # None
    /\ lastCycle[1].at - lastCycle[1].priorDown[1] <= Cooldown(lastCycle[1].alerts)
    /\ lastCycle[1].call = "notifyUp"

\* The statuses and outcomes of the completed cycles of n, in order
StatusSeq(n) ==
    LET ev == SelectSeq(LogOf(n), LAMBDA e : e.kind = "status")
    IN [i \in 1..Len(ev) |-> ev[i].status]
SuccessSeq(n) ==
    LET ev == SelectSeq(LogOf(n), LAMBDA e : e.kind = "status")
    IN [i \in 1..Len(ev) |-> ev[i].success]

\* The scenario of C5 has run for n: retry_count = 1 and the default
\* alert_on_recovery throughout, three cycles one after the other that saw the probe
\* fail, fail and succeed, and none in flight
Scenario(n) ==
    /\ n \notin overlapped
    /\ reloads = 0
    /\ config.alerts.retry_count = Some(1)
    /\ AlertOnRecovery(config.alerts)
    /\ SuccessSeq(n) = <<FALSE, FALSE, TRUE>>
    /\ n \notin {cyc[i].name : i \in 1..Len(cyc)}

\* C5: after the scenario the statuses were down, down, up; notifyDown was called
\* once, one incident was opened and it is resolved, and notifyUp was called once.
C5_EndToEnd ==
    \A n \in Names :
        Scenario(n) =>
           /\ StatusSeq(n) = <<"down", "down", "up">>
           /\ Cardinality(Events(n, "notifyDown")) = 1
           /\ Cardinality(Events(n, "addIncident")) = 1
           /\ Cardinality(Events(n, "notifyUp")) = 1
           /\ Cardinality({i \in 1..Len(incidents) : incidents[i].service = n}) = 1
           /\ Unresolved(n) = {}
           /\ \A i \in 1..Len(incidents) :
                 incidents[i].service = n =>
                    incidents[i].resolved /\ incidents[i].resolvedAt # None

C5_Witness == Scenario("A") /\ StatusSeq("A") = <<"down", "down", "up">>

\* C6: while the cycles of a target do not overlap, any two notifySslExpiring calls
\* for it are more than 24 hours apart.
C6_SslOncePerDay ==
    \A n \in Names \ overlapped : Separated(n, "notifySsl")

C6_Witness ==
    /\ "A" \notin overlapped
    /\ Cardinality(Events("A", "notifySsl")) = 2

\* C7: no two cycles of the same target are in flight at once.
C7_NoOverlap ==
    \A i, j \in 1..Len(cyc) : i # j => cyc[i].name # cyc[j].name

\* C8: for every target, overlapping cycles or not, any two notifyDown calls are
\* more than cooldown_period apart and any two notifySslExpiring calls more than 24
\* hours apart.
C8_CooldownUnderOverlap ==
    \A n \in Names : Separated(n, "notifyDown") /\ Separated(n, "notifySsl")

\* C9: every resolveIncident call that found no unresolved incident of its target
\* left the incident list as it was.
C9_ResolveNoop ==
    \A n \in Names :
        \A i \in Events(n, "resolveIncident") : ~LogOf(n)[i].hit => LogOf(n)[i].same

C9_Witness ==
    /\ "A" \notin overlapped
    /\ \E i \in Events("A", "resolveIncident") : ~LogOf("A")[i].hit
    /\ Len(incidents) = 1

\* C10: when the cycles of a target do not overlap, none is in flight and its
\* status is up, every incident opened for it is resolved (its last transition
\* from down to up resolved it), whatever the alerts configuration.
C10_ResolvedOnRecovery ==
    \A n \in Names \ overlapped :
        (n \notin {cyc[i].name : i \in 1..Len(cyc)} /\ StatusOf(n) = "up") =>
           Unresolved(n) = {}

-----------------------------------------------------------------------------
(* Properties of SpecFleet and of the retry loop *)

FleetNames == {"A", "B", "ssl-A"}

\* C11: for every configured retry_count, every started cycle makes at least one
\* probe attempt and its checkWithRetry returns a defined result: no cycle is
\* rejected because the result was undefined, and a completed cycle made an attempt.
C11_AlwaysProbes ==
    /\ \A n \in FleetNames :
          \A i \in Events(n, "rejected") : LogOf(n)[i].cause # "result"
    /\ lastCycle # None => Len(lastCycle[1].outs) >= 1

\* C12: notifyDown is called only in the step in which a checkWithRetry of that
\* target returns after retry_count attempts that all failed.
C12_DownOnlyAfterAllFailed ==
    [][\A n \in Names :
         LET before == IF n \in DOMAIN log THEN log[n] ELSE <<>>
             after == IF n \in DOMAIN log' THEN log'[n] ELSE <<>>
         IN (\E i \in 1..Len(after) : i > Len(before) /\ after[i].kind = "notifyDown") =>
               /\ lastCycle' # None
               /\ lastCycle' # lastCycle
               /\ LET lc == lastCycle'[1]
                  IN /\ lc.name = n
                     /\ lc.call = "notifyDown"
                     /\ ~lc.result.success
                     /\ Len(lc.outs) = RetryCount(lc.alerts)
                     /\ \A k \in 1..Len(lc.outs) : ~lc.outs[k]
                     /\ \E c \in 1..Len(cyc) :
                           /\ cyc[c].name = n /\ cyc[c].pc = "probe"
                           /\ Len(cyc[c].outs) + 1 = Len(lc.outs)]_vars

C12_Witness ==
    /\ lastCycle # None
    /\ lastCycle[1].call = "notifyDown"
    /\ RetryCount(lastCycle[1].alerts) = 3
    /\ lastCycle[1].outs = <<FALSE, FALSE, FALSE>>
    /\ Cardinality(Events(lastCycle[1].name, "notifyDown")) = 1

\* The StoredCheck recordCheck pushes for a result
StoredOf(r) ==
    [timestamp |-> r.timestamp, success |-> r.success, responseTime |-> r.responseTime,
     error |-> r.error]

\* C13: in the step in which a recordCheck completes, with cutoff = now minus the
\* store's retention, every stored check of every target is later than the cutoff,
\* every target's log is what was there before (plus the new check for the cycle's
\* target) without the checks at or before the cutoff, in the same order, and a
\* target with nothing left has no log.
C13_PruneOnRecord ==
    [][lastCycle' # lastCycle =>
         LET cutoff == now - retentionDays * Day
             lc == lastCycle'[1]
             old(n) == IF n \in DOMAIN checks THEN checks[n] ELSE <<>>
             all(n) == IF n = lc.name THEN Append(old(n), StoredOf(lc.result)) ELSE old(n)
             keep(n) == SelectSeq(all(n), LAMBDA e : GetTime(e.timestamp) > cutoff)
         IN /\ \A n \in DOMAIN checks' :
                  /\ checks'[n] # <<>>
                  /\ \A i \in 1..Len(checks'[n]) : GetTime(checks'[n][i].timestamp) > cutoff
            /\ \A n \in FleetNames :
                  IF keep(n) = <<>> THEN n \notin DOMAIN checks'
                  ELSE n \in DOMAIN checks' /\ checks'[n] = keep(n)]_vars

C13_Witness ==
    /\ lastCycle # None
    /\ lastCycle[1].at = StartTime + Day
    /\ retentionDays = 1
    /\ Events("B", "status") # {}
    /\ "B" \notin DOMAIN checks
    /\ "A" \in DOMAIN checks

\* C14: after scheduleChecks the active interval timers are those it has just set,
\* one for each entry of the new target list and none for another target, every
\* older timer is cancelled, and it has started one cycle for each entry.
C14_ReloadRebuildsTimers ==
    /\ [](/\ Cardinality(activeTimers) = Len(config.urls)
          /\ \A i \in 1..Len(config.urls) : \E tm \in activeTimers : tm.url = config.urls[i]
          /\ \A tm \in activeTimers :
                /\ tm.id >= timerSeq - Len(config.urls)
                /\ \E i \in 1..Len(config.urls) : config.urls[i].name = tm.url.name)
    /\ [][(config' # config \/ timerSeq' # timerSeq) =>
             started' = started + Len(config'.urls)]_vars

\* C15: a step that handles a reload, failed or not, leaves state.urlStates and
\* state.lastAlert as they were.
C15_ReloadKeepsState ==
    [][reloads' # reloads => urlStates' = urlStates /\ lastAlert' = lastAlert]_vars

C15_Witness ==
    /\ reloads = 1
    /\ config.urls = <<[name |-> "A"], [name |-> "A"]>>
    /\ Len(cyc) = 2
    /\ \A c \in 1..Len(cyc) : cyc[c].outs = <<>> /\ cyc[c].prev = "down"
    /\ StatusOf("A") = "down"
    /\ "A" \in DOMAIN lastAlert
    /\ now - lastAlert["A"] <= Cooldown(config.alerts)

\* C16: a reload whose file has no target list leaves the active configuration and
\* the timers as they were.
C16_KeepsLastGood ==
    [][(reloads' # reloads /\ config'.urls = <<>>) =>
          UNCHANGED <<config, timers, activeTimers>>]_vars

\* C17: while the cycles of a target do not overlap, every notifyDown call for it
\* is either still awaited or was followed, delivered or not, by the incident being
\* opened and the last-alert time stamped with the status still down; and once no
\* cycle of the target is in flight the projection shows its stored state.
C17_DeliveryFailureKeepsState ==
    \A n \in FleetNames \ overlapped :
        /\ \A i \in Events(n, "notifyDown") :
              IF i = Len(LogOf(n))
              THEN \E c \in 1..Len(cyc) : cyc[c].name = n /\ cyc[c].pc = "notifyDown"
              ELSE /\ LogOf(n)[i + 1].kind = "addIncident"
                   /\ LogOf(n)[i + 1].opened
                   /\ LogOf(n)[i + 1].stamped
                   /\ LogOf(n)[i + 1].status = "down"
        /\ (reloads = 0 /\ n \notin Running /\ Events(n, "status") # {}) =>
              \E k \in 1..Len(statusData.services) : statusData.services[k] = urlStates[n]

C17_Witness ==
    /\ "A" \notin overlapped
    /\ "A" \notin Running
    /\ \E i \in Events("A", "addIncident") : ~LogOf("A")[i].delivered
    /\ StatusOf("A") = "down"
    /\ Unresolved("A") # {}
    /\ "A" \in DOMAIN lastAlert

\* C18: whatever cycles of other targets are in flight, a timer of a target with no
\* cycle in flight can start one (while the run's bounds allow another cycle), and
\* every awaited probe can settle with any outcome.
C18_TargetsIndependent ==
    ~halted =>
       /\ \A tm \in activeTimers :
             (started < env.maxCycles /\ Len(cyc) < MaxInFlight /\ tm.url.name \notin Running)
                => ENABLED Tick(tm)
       /\ \A c \in 1..Len(cyc) :
             cyc[c].pc = "probe" => \A o \in env.outcomes : ENABLED ProbeSettle(c, o)

C18_Witness ==
    /\ \E c \in 1..Len(cyc) :
          cyc[c].name = "A" /\ cyc[c].pc = "sleep" /\ Events("A", "status") = {}
    /\ "B" \notin Running
    /\ Cardinality(Events("B", "status")) = 2
    /\ StatusOf("B") = "down"

\* The names of the configured targets
Targets == {config.urls[i].name : i \in 1..Len(config.urls)}

\* C19: while the cycles of a target do not overlap, a cycle whose result has at
\* most 14 certificate days left skips notifySslExpiring only within 24 hours of
\* the stamp of the target's own last SSL alert; the target's SSL stamp is written
\* only by its SSL alerts, and its status-change stamp only by its down-alerts.
C19_SslIndependent ==
    \A n \in Targets \ overlapped :
        /\ \A i \in Events(n, "sslSkip") :
              /\ LogOf(n)[i].last # None
              /\ LogOf(n)[i].at - LogOf(n)[i].last[1] <= SslCooldown
        /\ ("ssl-" \o n) \in DOMAIN lastAlert =>
              LastAt(LogOf(n), "sslStamp") = Some(lastAlert["ssl-" \o n])
        /\ n \in DOMAIN lastAlert => Events(n, "addIncident") # {}

\* C20: the incident list is ordered by opened-at timestamp, latest first.
C20_MostRecentFirst ==
    \A i, j \in 1..Len(incidents) :
        i < j => GetTime(incidents[i].timestamp) >= GetTime(incidents[j].timestamp)

\* C21: in the step in which addIncident returns, no incident of the ledger,
\* resolved or not, was opened before the cutoff: now minus the configured
\* status_page.incident_retention_days (90 days when the option is absent).
C21_IncidentRetention ==
    [][(\E n \in FleetNames :
           Cardinality(Events(n, "addIncident")') > Cardinality(Events(n, "addIncident"))) =>
         LET configured == config.status_page.incident_retention_days
             days == IF configured = None THEN IncidentRetentionDays ELSE configured[1]
         IN \A i \in 1..Len(incidents') :
               GetTime(incidents'[i].timestamp) >= now - days * Day]_vars

\* A step in which a cycle of runCheck runs to its end (its promise is fulfilled)
CycleEnds ==
    /\ Len(cyc') < Len(cyc)
    /\ \A n \in FleetNames :
          Cardinality(Events(n, "rejected")') = Cardinality(Events(n, "rejected"))

\* C22: the published services change only when a cycle runs to its end, and what
\* such a step publishes is the current state of each entry of the active target
\* list that has completed a check, one per entry and in the order of the list,
\* each with status up or down.
C22_ProjectionInConfigOrder ==
    [][/\ statusData' # statusData => CycleEnds
       /\ CycleEnds =>
             LET svc == statusData'.services
                 done == {i \in 1..Len(config.urls) :
                             Events(config.urls[i].name, "status")' # {}}
                 nth(k) == CHOOSE i \in done : Cardinality({j \in done : j < i}) = k - 1
             IN /\ Len(svc) = Cardinality(done)
                /\ \A k \in 1..Len(svc) :
                      /\ svc[k] = urlStates'[config.urls[nth(k)].name]
                      /\ svc[k].name = config.urls[nth(k)].name
                      /\ svc[k].status \in {"up", "down"}]_vars

C22_Witness ==
    /\ config.urls = <<[name |-> "A"], [name |-> "B"]>>
    /\ lastCycle # None
    /\ lastCycle[1].name = "A"
    /\ Cardinality(Events("A", "status")) = 1
    /\ Events("B", "status") # {}
    /\ cyc = <<>>
    /\ Len(statusData.services) = 2
    /\ statusData.services[1].name = "A"
    /\ statusData.services[2].name = "B"
    /\ statusData.services[1].status # statusData.services[2].status

\* C23: whatever fault a probe attempt has met, the attempt ended with a result
\* (checkUrl returned; no exception escaped it and ended the process, so the
\* timers and cycles of the other targets go on), and every failed result that is
\* stored or shown carries a non-empty error description.
C23_FaultsAreFailedResults ==
    /\ \A n \in FleetNames : Events(n, "uncaught") = {}
    /\ \A n \in DOMAIN checks :
          \A i \in 1..Len(checks[n]) :
             ~checks[n][i].success =>
                checks[n][i].error # None /\ checks[n][i].error[1] # ""
    /\ \A n \in DOMAIN urlStates :
          urlStates[n].status = "down" =>
             urlStates[n].error # None /\ urlStates[n].error[1] # ""

Abs(x) == IF x < 0 THEN 0 - x ELSE x

RECURSIVE SumOfResponseTimes(_, _)
\* The sum of the response times of the checks of cs at the indices in S
SumOfResponseTimes(cs, S) ==
    IF S = {} THEN 0
    ELSE LET j == CHOOSE x \in S : TRUE
         IN cs[j].responseTime[1] + SumOfResponseTimes(cs, S \ {j})

\* C24: for a target with stored checks, getHourlyAverages(target, hours) called
\* at time now returns `hours` buckets, the i-th for the clock hour that starts
\* hours - i hours before the start of the current hour (ascending, the current
\* hour last).  A bucket reports the number of the target's checks stamped in its
\* hour; with none it reports null for the average and for the uptime; else the
\* average is the mean of their response times, and the uptime 100 times the
\* fraction of them that succeeded, each rounded to a nearest integer.
C24_HourlyAverages ==
    [][(/\ answer' # answer
        /\ answer'[1].fn = "getHourlyAverages"
        /\ GetChecks(checks, answer'[1].name) # <<>>) =>
         LET q == answer'[1]
             cs == GetChecks(checks, q.name)
             start(i) == HourStart(now) - (q.arg - i) * Hour
             S(i) == {j \in 1..Len(cs) :
                         /\ GetTime(cs[j].timestamp) >= start(i)
                         /\ GetTime(cs[j].timestamp) < start(i) + Hour}
             ups(i) == Cardinality({j \in S(i) : cs[j].success})
         IN /\ Len(q.out) = q.arg
            /\ \A i \in 1..Len(q.out) :
                  LET b == q.out[i]
                      n == Cardinality(S(i))
                  IN /\ b.hour = ToISOString(start(i))
                     /\ b.checkCount = n
                     /\ IF n = 0
                        THEN b.avgResponseTime = None /\ b.uptime = None
                        ELSE /\ b.avgResponseTime # None
                             /\ 2 * Abs(b.avgResponseTime[1] * n
                                          - SumOfResponseTimes(cs, S(i))) <= n
                             /\ b.uptime # None
                             /\ 2 * Abs(b.uptime[1] * n - 100 * ups(i)) <= n]_vars

C24_Witness ==
    /\ answer # None
    /\ answer[1].fn = "getHourlyAverages"
    /\ answer[1].arg = 2
    /\ Len(answer[1].out) = 2
    /\ answer[1].out[1].checkCount = 0
    /\ answer[1].out[1].avgResponseTime = None
    /\ answer[1].out[1].uptime = None
    /\ answer[1].out[2].checkCount = 3
    /\ answer[1].out[2].avgResponseTime = Some(3)
    /\ answer[1].out[2].uptime = Some(67)

\* C25: getRecentChecks(target, limit) returns the last min(limit, n) entries of
\* the target's n-entry log, in the order of the log, for every limit >= 0, none
\* for limit = 0; and the timestamps of a log never decrease along the log.
C25_RecentChecks ==
    /\ [](\A n \in DOMAIN checks :
             \A i, j \in 1..Len(checks[n]) :
                i < j => GetTime(checks[n][i].timestamp) <= GetTime(checks[n][j].timestamp))
    /\ [][(answer' # answer /\ answer'[1].fn = "getRecentChecks") =>
             LET q == answer'[1]
                 cs == GetChecks(checks, q.name)
                 n == Len(cs)
                 k == IF q.arg < n THEN q.arg ELSE n
             IN /\ Len(q.out) = k
                /\ q.out = SubSeq(cs, n - k + 1, n)
                /\ q.arg = 0 => q.out = <<>>]_vars

\* C26: in the step in which a recordCheck completes, with cutoff = now minus the
\* storage.retention_days of the active configuration (5 when absent), also after
\* a reload has changed it, every target's log is what was there before (plus the
\* new check for the cycle's target) without the checks at or before the cutoff.
C26_ReloadedRetention ==
    [][lastCycle' # lastCycle =>
         LET days == IF config.storage.retention_days = None THEN DefaultRetentionDays
                     ELSE config.storage.retention_days[1]
             cutoff == now - days * Day
             lc == lastCycle'[1]
             old(n) == IF n \in DOMAIN checks THEN checks[n] ELSE <<>>
             all(n) == IF n = lc.name THEN Append(old(n), StoredOf(lc.result)) ELSE old(n)
             keep(n) == SelectSeq(all(n), LAMBDA e : GetTime(e.timestamp) > cutoff)
         IN \A n \in FleetNames :
               IF keep(n) = <<>> THEN n \notin DOMAIN checks'
               ELSE n \in DOMAIN checks' /\ checks'[n] = keep(n)]_vars

\* The status event before position i in the history of n, 0 when there is none
PrevStatus(n, i) ==
    LET before == {j \in Events(n, "status") : j < i}
    IN IF before = {} THEN 0 ELSE CHOOSE j \in before : \A k \in before : k <= j

\* C27: a cycle that ends in failure for a target whose previous status is down
\* calls no down-notification, however long ago the last one was, and between
\* its status update and the target's next one no down-notification is sent, no
\* incident is opened and the last-alert time is not stamped.
C27_EdgeTriggered ==
    /\ (lastCycle # None /\ ~lastCycle[1].result.success /\ lastCycle[1].prev = "down")
          => lastCycle[1].call = "ssl"
    /\ \A n \in Names \ overlapped :
          \A i \in 1..Len(LogOf(n)) :
             LET p == PrevStatus(n, i)
                 pp == PrevStatus(n, p)
             IN (/\ LogOf(n)[i].kind \in {"notifyDown", "addIncident"}
                 /\ p # 0 /\ pp # 0) =>
                   ~(LogOf(n)[p].status = "down" /\ LogOf(n)[pp].status = "down")

C27_Witness ==
    /\ lastCycle # None
    /\ ~lastCycle[1].result.success
    /\ lastCycle[1].prev = "down"
    /\ lastCycle[1].name \notin overlapped
    /\ lastCycle[1].priorDown # None
    /\ lastCycle[1].at - lastCycle[1].priorDown[1] > Cooldown(lastCycle[1].alerts)
    /\ lastCycle[1].call = "ssl"
    /\ cyc = <<>>

\* C28: when the first cycle of a target to complete (no state of the target was
\* stored when it started, none when it completed) has failed, it calls the
\* down-notification, and then an incident for the target is opened and its
\* last-alert time stamped before the target's status is updated again; when it
\* has succeeded, it calls no status notification, and no incident of the target
\* is opened or resolved before the status is updated again.
C28_FirstCycle ==
    /\ (lastCycle # None /\ lastCycle[1].prev = "none" /\ lastCycle[1].seen = "none") =>
          lastCycle[1].call = (IF lastCycle[1].result.success THEN "ssl" ELSE "notifyDown")
    /\ \A n \in FleetNames \ overlapped :
          LET lg == LogOf(n)
          IN (lg # <<>> /\ lg[1].kind = "status") =>
                IF lg[1].success
                THEN \A i \in 2..Len(lg) :
                        PrevStatus(n, i) = 1 =>
                           lg[i].kind \notin {"notifyDown", "notifyUp", "addIncident",
                                              "resolveIncident"}
                ELSE /\ Len(lg) >= 2 => lg[2].kind = "notifyDown"
                     /\ Len(lg) >= 3 =>
                           \/ lg[3].kind = "addIncident" /\ lg[3].opened /\ lg[3].stamped
                           \/ lg[3].kind = "rejected"

\* The successes of the status events of n, in order
Completed(n) ==
    LET ev == Events(n, "status")
    IN [k \in 1..Cardinality(ev) |->
          LogOf(n)[CHOOSE i \in ev : Cardinality({j \in ev : j < i}) = k - 1].success]

\* C29: while no check is old enough to have been pruned, the history log of every
\* target has exactly one entry for each of the target's completed cycles, in the
\* order they completed and with their outcome (so retried attempts and the
\* cycles of other targets add nothing to it and none is lost), and the entry
\* added last is the StoredCheck of the last attempt of the cycle that completed
\* last.
C29_OneEntryPerCycle ==
    now - StartTime < retentionDays * Day =>
       /\ \A n \in FleetNames :
             LET cs == GetChecks(checks, n)
             IN /\ Len(cs) = Len(Completed(n))
                /\ \A k \in 1..Len(cs) : cs[k].success = Completed(n)[k]
       /\ lastCycle # None =>
             LET cs == GetChecks(checks, lastCycle[1].name)
             IN /\ cs # <<>>
                /\ cs[Len(cs)] = StoredOf(lastCycle[1].result)
                /\ lastCycle[1].result.success =
                      lastCycle[1].outs[Len(lastCycle[1].outs)]

C29_Witness ==
    /\ now - StartTime < retentionDays * Day
    /\ lastCycle # None
    /\ lastCycle[1].name = "A"
    /\ lastCycle[1].sleeps = 1
    /\ lastCycle[1].outs = <<FALSE, TRUE>>
    /\ Len(GetChecks(checks, "A")) = 1
    /\ Len(GetChecks(checks, "B")) = 2

\* C30: configured options are used as given, 0 included.  A cycle that has
\* failed after a configured retry_count of attempts made exactly that many; a
\* cycle that ends in a change to down when more than the configured
\* cooldown_period has passed since the target's last alert calls the
\* down-notification; and a cycle that has waited the configured retry_delay
\* between two attempts can start the next attempt.
C30_ConfiguredValuesUsed ==
    /\ [](\A c \in 1..Len(cyc) :
             (/\ ~halted
              /\ cyc[c].pc = "sleep"
              /\ cyc[c].alerts.retry_delay # None
              /\ now - cyc[c].sleepAt >= cyc[c].alerts.retry_delay[1]) =>
                ENABLED SleepDone(c))
    /\ [][lastCycle' # lastCycle =>
             LET lc == lastCycle'[1]
                 cooldown == lc.alerts.cooldown_period
                 count == lc.alerts.retry_count
             IN /\ (count # None /\ count[1] >= 1 /\ ~lc.result.success) =>
                      Len(lc.outs) = count[1]
                /\ (/\ cooldown # None
                    /\ ~lc.result.success
                    /\ lc.prev # "down"
                    /\ now - GetOrZero(lastAlert, lc.name) > cooldown[1]) =>
                      lc.call = "notifyDown"]_vars

\* C31: a probe that follows redirects has sent at most max_redirects + 1
\* requests (max_redirects as configured, 5 when absent) and followed at most
\* max_redirects redirects; it never ends without settling; it has failed with
\* the too-many-redirects error only on a redirect response received after
\* max_redirects were followed, and with the redirect-without-location error
\* only on a redirect response.
C31_RedirectsBounded ==
    (req # None /\ req[1].followRedirects) =>
       LET rq == req[1]
           configured == rq.settings.max_redirects
           max == IF configured = None THEN DefaultMaxRedirects ELSE configured[1]
       IN /\ rq.requests <= max + 1
          /\ rq.redirectCount <= max
          /\ rq.requests = rq.redirectCount + 1
          /\ rq.state # "thrown"
          /\ rq.error = "Too many redirects" =>
                /\ rq.state = "rejected" /\ rq.redirectCount = max
                /\ rq.statusCode \in RedirectCodes
          /\ rq.error = "Redirect without location header" =>
                rq.state = "rejected" /\ rq.statusCode \in RedirectCodes

\* The cycles of n that have called notifyDown and not yet returned from it
AwaitingNotifyDown(n) ==
    {c \in 1..Len(cyc) : cyc[c].name = n /\ cyc[c].pc = "notifyDown"}

\* C32: for every target, each down-notification fired is followed in the same
\* cycle by the opening of one incident for the target, and no incident is opened
\* otherwise: the incidents opened so far are as many as the down-notifications
\* fired so far, less those of the cycles that are still sending theirs, and the
\* ledger holds that many incidents of the target.
C32_IncidentPerNotification ==
    \A n \in FleetNames :
       /\ Cardinality(Events(n, "addIncident")) + Cardinality(AwaitingNotifyDown(n))
             = Cardinality(Events(n, "notifyDown"))
       /\ \A i \in Events(n, "addIncident") : LogOf(n)[i].opened
       /\ Cardinality({i \in 1..Len(incidents) : incidents[i].service = n})
             = Cardinality(Events(n, "addIncident"))
       /\ n \notin overlapped =>
             \A i \in Events(n, "addIncident") :
                i > 1 /\ LogOf(n)[i - 1].kind = "notifyDown"

C32_Witness ==
    /\ Cardinality(Events("A", "notifyDown")) = 2
    /\ Cardinality(Events("A", "addIncident")) = 2
    /\ \E i \in Events("A", "addIncident") : ~LogOf("A")[i].delivered
    /\ Len(incidents) = 2
    /\ cyc = <<>>

\* C33: the ledger never holds two unresolved incidents of one target.
C33_OneUnresolvedPerTarget ==
    \A n \in Names :
       Cardinality({i \in 1..Len(incidents) :
                      incidents[i].service = n /\ ~incidents[i].resolved}) <= 1

\* C34: with alert_on_recovery enabled throughout, a target that has no cycle in
\* flight and whose status is up has no unresolved incident in the ledger.
C34_UpMeansResolved ==
    \A n \in FleetNames :
       (/\ AlertOnRecovery(config.alerts)
        /\ n \notin Running
        /\ StatusOf(n) = "up") =>
          \A i \in 1..Len(incidents) : incidents[i].service = n => incidents[i].resolved

\* C35: for every target, the recovery-notifications fired so far are never more
\* than the down-notifications fired so far.
C35_RecoveryAfterDown ==
    \A n \in Names :
       Cardinality(Events(n, "notifyUp")) <= Cardinality(Events(n, "notifyDown"))

\* The last event of a kind before position i in the history of n, 0 when none
LastBefore(n, kinds, i) ==
    LET before == {j \in 1..Len(LogOf(n)) : j < i /\ LogOf(n)[j].kind \in kinds}
    IN IF before = {} THEN 0 ELSE CHOOSE j \in before : \A k \in before : k <= j

\* The outage that the status event at position i of n's history belongs to began
\* (the first down status after the last up status) and no down-notification has
\* been fired since
Unalerted(n, i) ==
    LET lastUp == CHOOSE j \in {0} \cup {k \in Events(n, "status") :
                                           k < i /\ LogOf(n)[k].status = "up"} :
                     \A k \in Events(n, "status") :
                        (k < i /\ LogOf(n)[k].status = "up") => k <= j
    IN LastBefore(n, {"notifyDown"}, i) <= lastUp

\* C36: an outage whose down-notification the cooldown suppressed is alerted
\* later if the target stays down: a cycle that fails for a target that is down,
\* in an outage with no down-notification so far, once the cooldown of the
\* earlier alert is over, fires the down-notification (and so opens the incident).
C36_SuppressedOutageAlertedLater ==
    (/\ lastCycle # None
     /\ lastCycle[1].name \notin overlapped
     /\ ~lastCycle[1].result.success
     /\ lastCycle[1].prev = "down"
     /\ lastCycle[1].priorDown # None
     /\ lastCycle[1].at - GetOrZero(lastAlert, lastCycle[1].name)
           > Cooldown(lastCycle[1].alerts)
     /\ Unalerted(lastCycle[1].name, lastCycle[1].nth)) =>
       lastCycle[1].call = "notifyDown"

\* The names of the configured targets
Configured(cfg) == {cfg.urls[i].name : i \in 1..Len(cfg.urls)}

\* C37: a step in which a cycle of one target stamps an alert leaves the
\* last-alert times of every other configured target as they were, that of its
\* status-change alerts and that of its SSL-expiry alerts.
C37_SuppressionPerTarget ==
    [][\A m \in FleetNames :
          (lastAlert' # lastAlert /\ Len(LogOf(m)') > Len(LogOf(m))) =>
             \A n \in Configured(config) \ {m} :
                /\ GetOrZero(lastAlert', n) = GetOrZero(lastAlert, n)
                /\ GetOrZero(lastAlert', "ssl-" \o n) = GetOrZero(lastAlert, "ssl-" \o n)]_vars

\* The events of a cycle that a reader of the monitor's output can see
Effects(n) ==
    Events(n, "notifyDown") \cup Events(n, "notifyUp") \cup Events(n, "notifySsl")
       \cup Events(n, "addIncident") \cup Events(n, "resolveIncident")

\* The incidents of n in a ledger, and the entries of a sequence
IncidentsOf(incs, n) == {incs[i] : i \in {k \in 1..Len(incs) : incs[k].service = n}}
Entries(s) == {s[i] : i \in 1..Len(s)}

\* C38: for a target that is not in the active configuration, no step sends a
\* notification, opens or resolves an incident, or adds a history entry: its
\* incidents and its history entries after the step were there before it.
C38_RemovedTargetIsSilent ==
    [][\A n \in FleetNames :
          (n \notin Configured(config) /\ n \notin Configured(config')) =>
             /\ Effects(n)' = Effects(n)
             /\ Len(GetChecks(checks', n)) <= Len(GetChecks(checks, n))
             /\ Entries(GetChecks(checks', n)) \subseteq Entries(GetChecks(checks, n))
             /\ IncidentsOf(incidents', n) \subseteq IncidentsOf(incidents, n)]_vars

\* C39: every interval timer that is active has its handle in state.timers.
C39_TimersTracked ==
    \A tm \in activeTimers : \E n \in DOMAIN timers : timers[n] = tm.id

====
